---- MODULE Spec2Model ----
(***************************************************************************)
(* A model of the linear-mixed-model synthetic experiment of               *)
(* src/src/autora/experiment_runner/synthetic/abstract/lmm.py:             *)
(* the formula parser _extract_variable_names, the factory lmm_experiment  *)
(* and the closure run / ground_truth it returns.                          *)
(*                                                                         *)
(* Strings are sequences of one-character strings, so that split, strip,   *)
(* replace and the regular expressions of the source act on characters.    *)
(* Numbers: coefficients, standard deviations and the dependent variable   *)
(* are counted in halves (0.5 is 1); condition values and standard-normal  *)
(* draws are whole numbers, so every product stays an integer.             *)
(***************************************************************************)
EXTENDS Integers, Sequences, FiniteSets, TLC

VARIABLES
    terms,            \* the terms the caller wrote the formula from
    formula,          \* lmm_experiment(formula=...)
    fixed_effects,    \* closure variable of run, after line 161-162
    random_effects,   \* closure variable of run, after line 163-164
    fixed_variables,  \* closure variable: _extract_variable_names(formula)[1]
    random_variables, \* _extract_variable_names(formula)[2]
    rng,              \* closure variable: state of the experiment's own generator
    conditions,       \* the caller's table object, as it is after the last call
    call,             \* the arguments of the last call
    returned,         \* what the last call returned or raised
    steps,            \* what the last call's body computed, statement by statement
    kept              \* an earlier call and its result, held by the caller

vars == <<terms, formula, fixed_effects, random_effects, fixed_variables,
          random_variables, rng, conditions, call, returned, steps, kept>>

(***************************************************************************)
(* Bounds of the model.                                                    *)
(***************************************************************************)
MaxTerms == 2
MaxSeed == 0
RngStates == 2
NRows == 3

(***************************************************************************)
(* Characters and strings.                                                 *)
(***************************************************************************)
Lower == {"a","b","c","d","e","f","g","h","i","j","k","l","m",
          "n","o","p","q","r","s","t","u","v","w","x","y","z"}
Upper == {"A","B","C","D","E","F","G","H","I","J","K","L","M",
          "N","O","P","Q","R","S","T","U","V","W","X","Y","Z"}
Digit == {"0","1","2","3","4","5","6","7","8","9"}
WordChar == Lower \cup Upper \cup Digit \cup {"_"}

\* The characters in code-point order: Python compares strings by code point.
CodePoints == <<" ","(",")","+",
                "0","1","2","3","4","5","6","7","8","9",
                "A","B","C","D","E","F","G","H","I","J","K","L","M",
                "N","O","P","Q","R","S","T","U","V","W","X","Y","Z",
                "_",
                "a","b","c","d","e","f","g","h","i","j","k","l","m",
                "n","o","p","q","r","s","t","u","v","w","x","y","z",
                "|","~">>

Ord(c) == CHOOSE i \in 1..Len(CodePoints) : CodePoints[i] = c

SetMin(S) == CHOOSE x \in S : \A y \in S : x <= y
SetMax(S) == CHOOSE x \in S : \A y \in S : x >= y

\* s < t for Python strings.
StrLess(s, t) ==
    \E k \in 1..(Len(s) + 1) :
        /\ k <= Len(t)
        /\ \A i \in 1..(k - 1) : s[i] = t[i]
        /\ \/ k = Len(s) + 1
           \/ Ord(s[k]) < Ord(t[k])

RECURSIVE sorted(_)
sorted(S) ==
    IF S = {} THEN <<>>
    ELSE LET m == CHOOSE x \in S : \A y \in S \ {x} : StrLess(x, y)
         IN  <<m>> \o sorted(S \ {m})

RECURSIVE lstrip(_)
lstrip(s) == IF s # <<>> /\ Head(s) = " " THEN lstrip(Tail(s)) ELSE s

RECURSIVE rstrip(_)
rstrip(s) ==
    IF s # <<>> /\ s[Len(s)] = " " THEN rstrip(SubSeq(s, 1, Len(s) - 1)) ELSE s

strip(s) == rstrip(lstrip(s))

\* s.split(sep) for a one-character separator.
RECURSIVE split(_, _)
split(s, sep) ==
    LET at == {i \in 1..Len(s) : s[i] = sep}
    IN  IF at = {} THEN <<s>>
        ELSE LET i == SetMin(at)
             IN  <<SubSeq(s, 1, i - 1)>> \o split(SubSeq(s, i + 1, Len(s)), sep)

\* s.replace(old, new): every occurrence, left to right, without overlap.
RECURSIVE replace(_, _, _)
replace(s, old, new) ==
    IF Len(s) < Len(old) THEN s
    ELSE IF SubSeq(s, 1, Len(old)) = old
         THEN new \o replace(SubSeq(s, Len(old) + 1, Len(s)), old, new)
         ELSE <<Head(s)>> \o replace(Tail(s), old, new)

\* dict.get(key, default)
get(d, key, default) == IF key \in DOMAIN d THEN d[key] ELSE default

(***************************************************************************)
(* The regular expressions of the source.                                  *)
(***************************************************************************)
\* re.search(r'\b0\b', s) is not None
search_zero(s) ==
    \E i \in 1..Len(s) :
        /\ s[i] = "0"
        /\ (i = 1 \/ s[i - 1] \notin WordChar)
        /\ (i = Len(s) \/ s[i + 1] \notin WordChar)

\* [^\(]*\) matches at position k of s
ClosesAt(s, k) ==
    \E q \in k..Len(s) : s[q] = ")" /\ \A m \in k..(q - 1) : s[m] # "("

\* the last position of the greedy \w* that starts after position i
RECURSIVE WordEnd(_, _)
WordEnd(s, i) ==
    IF i < Len(s) /\ s[i + 1] \in WordChar THEN WordEnd(s, i + 1) ELSE i

\* re.findall(r'[a-z]\w*(?![^\(]*\))', s), scanning from position i
RECURSIVE findall_bare_from(_, _)
findall_bare_from(s, i) ==
    IF i > Len(s) THEN <<>>
    ELSE IF s[i] \notin Lower THEN findall_bare_from(s, i + 1)
    ELSE LET ends == {e \in i..WordEnd(s, i) : ~ClosesAt(s, e + 1)}
         IN  IF ends = {} THEN findall_bare_from(s, i + 1)
             ELSE LET e == SetMax(ends)
                  IN  <<SubSeq(s, i, e)>> \o findall_bare_from(s, e + 1)

findall_bare(s) == findall_bare_from(s, 1)

\* re.findall(r'\(([^\|]+)\|([^\)]+)\)', s), scanning from position i
RECURSIVE findall_groups_from(_, _)
findall_groups_from(s, i) ==
    IF i > Len(s) THEN <<>>
    ELSE IF s[i] # "(" THEN findall_groups_from(s, i + 1)
    ELSE LET bars == {p \in (i + 1)..Len(s) : s[p] = "|"}
             p == SetMin(bars)
             closes == {q \in (p + 1)..Len(s) : s[q] = ")"}
             q == SetMin(closes)
         IN  IF bars = {} \/ p = i + 1 \/ closes = {} \/ q = p + 1
             THEN findall_groups_from(s, i + 1)
             ELSE <<  <<SubSeq(s, i + 1, p - 1), SubSeq(s, p + 1, q - 1)>>  >>
                  \o findall_groups_from(s, q + 1)

findall_groups(s) == findall_groups_from(s, 1)

\* re.findall(r'\((.+?)\|(.+?)\)', s), scanning from position i
RECURSIVE findall_terms_from(_, _)
findall_terms_from(s, i) ==
    IF i > Len(s) THEN <<>>
    ELSE IF s[i] # "(" THEN findall_terms_from(s, i + 1)
    ELSE LET bars == {p \in (i + 2)..Len(s) :
                         s[p] = "|" /\ \E q \in (p + 2)..Len(s) : s[q] = ")"}
             p == SetMin(bars)
             q == SetMin({r \in (p + 2)..Len(s) : s[r] = ")"})
         IN  IF bars = {} THEN findall_terms_from(s, i + 1)
             ELSE <<  <<SubSeq(s, i + 1, p - 1), SubSeq(s, p + 1, q - 1)>>  >>
                  \o findall_terms_from(s, q + 1)

findall_terms(s) == findall_terms_from(s, 1)

(***************************************************************************)
(* _extract_variable_names                                                 *)
(***************************************************************************)
OnePlus == <<"1", " ", "+", " ">>

\* fixed_effects.extend(reffect[0].replace('1 + ', '').split('+')) for each reffect
RECURSIVE extend_with_random(_, _)
extend_with_random(fixed, reffects) ==
    IF reffects = <<>> THEN fixed
    ELSE extend_with_random(
             fixed \o split(replace(Head(reffects)[1], OnePlus, <<>>), "+"),
             Tail(reffects))

_extract_variable_names(f) ==
    LET parts == split(f, "~")
        dependent == strip(parts[1])
        rhs == parts[2]
        bare == findall_bare(rhs)
        reffects == findall_groups(rhs)
        all == extend_with_random(bare, reffects)
    IN  << dependent,
           sorted({strip(all[i]) : i \in 1..Len(all)}),
           sorted({strip(reffects[i][2]) : i \in 1..Len(reffects)}) >>

(***************************************************************************)
(* Names, formulas and the inputs the model draws from.                    *)
(***************************************************************************)
INTERCEPT == <<"I","n","t","e","r","c","e","p","t">>
ONE == <<"1">>
X1 == <<"x","1">>
X2 == <<"x","2">>
G == <<"g">>
H == <<"h">>
Y == <<"y">>

\* A top-level term of a formula: the literal 1 or 0, a bare variable, or a
\* random-effect term (marker and slopes | name).
Term(k, name, marker, slopes) ==
    [k |-> k, name |-> name, marker |-> marker, slopes |-> slopes]

One == Term("one", <<>>, FALSE, <<>>)
Zero == Term("zero", <<>>, FALSE, <<>>)
Tokens == {One, Zero}
BareTerms == {Term("var", X1, FALSE, <<>>)}
RandomTerms == {Term("rand", G, TRUE, <<>>),       \* (1|g)
                Term("rand", G, TRUE, <<X1>>),     \* (1 + x1|g)
                Term("rand", H, FALSE, <<X2>>)}    \* (x2|h)

RECURSIVE Join(_, _)
Join(ss, sep) ==
    IF ss = <<>> THEN <<>>
    ELSE IF Len(ss) = 1 THEN ss[1]
    ELSE ss[1] \o sep \o Join(Tail(ss), sep)

Plus == <<" ", "+", " ">>

\* The term list of a random-effect term, as written: 1, x1, 1 + x1
TermList(t) == (IF t.marker THEN <<ONE>> ELSE <<>>) \o t.slopes

RenderTerm(t) ==
    CASE t.k = "one" -> ONE
      [] t.k = "zero" -> <<"0">>
      [] t.k = "var" -> t.name
      [] t.k = "rand" -> <<"(">> \o Join(TermList(t), Plus) \o <<"|">> \o t.name \o <<")">>

\* 'y ~ term + term + ...', written as the module's examples write formulas
Render(ts) == Y \o <<" ", "~", " ">> \o Join([i \in 1..Len(ts) |-> RenderTerm(ts[i])], Plus)

\* An optional leading 1 or 0, then at most MaxTerms variables and
\* random-effect terms in any order, no variable and no grouping variable twice.
Bodies == UNION {[1..n -> BareTerms \cup RandomTerms] : n \in 0..MaxTerms}
Distinct(ts) == \A i, j \in 1..Len(ts) : i # j => ts[i].name # ts[j].name
FormulaTerms ==
    {b \in Bodies : Len(b) > 0 /\ Distinct(b)}
    \cup {<<t>> \o b : t \in Tokens, b \in {c \in Bodies : Distinct(c)}}

\* A mapping argument: None, or a dict.
NoneArg == [given |-> FALSE, map |-> <<>>]
Dict(m) == [given |-> TRUE, map |-> m]

FixedEffectsArgs ==
    { NoneArg,
      Dict((INTERCEPT :> 3) @@ (X1 :> 2)),
      Dict((INTERCEPT :> 5) @@ (ONE :> 4) @@ (X2 :> 3)) }

RandomEffectsArgs ==
    { NoneArg,
      Dict((G :> ((INTERCEPT :> 2))) ),
      Dict((G :> ((INTERCEPT :> 2) @@ (ONE :> 3) @@ (X1 :> 4)))
           @@ (H :> ((X2 :> 2)))) }

\* random_state: None or an integer seed
None == -1
Seeds == 0..MaxSeed
\* added_noise of a noisy run, in halves; ground_truth passes 0
AddedNoise == {1}

\* The value of column c in row r of a conditions table.
ColumnValue(c, r) ==
    CASE c = X1 -> r - 1
      [] c = X2 -> ((r * r) % 4) + 1
      [] c = G -> 2 - ((r - 1) % 2)
      [] c = H -> ((r - 1) \div 2) + 1
      [] OTHER -> 9

ColumnSets == { {G, H}, {X1, G, Y}, {X1, X2, H}, {X1, X2, G, H} }

Tables == {[c \in cs |-> [r \in 1..NRows |-> ColumnValue(c, r)]] : cs \in ColumnSets}

(***************************************************************************)
(* numpy's Generator: a state, its standard-normal output, its successor.  *)
(***************************************************************************)
default_rng(seed) == seed % RngStates
standard_normal(state) == IF state % 2 = 0 THEN state + 1 ELSE -(state + 1)
advance(state) == (state + 1) % RngStates

\* rng.normal(0, scale): loc + scale * standard_normal, one draw taken
normal(state, scale) ==
    [value |-> scale * standard_normal(state), rng |-> advance(state)]

\* rng.normal(0, scale, n): n draws, one after the other
RECURSIVE normal_n(_, _, _)
normal_n(state, scale, n) ==
    IF n = 0 THEN [values |-> <<>>, rng |-> state]
    ELSE LET d == normal(state, scale)
             rest == normal_n(d.rng, scale, n - 1)
         IN  [values |-> <<d.value>> \o rest.values, rng |-> rest.rng]

(***************************************************************************)
(* Tables (pandas.DataFrame): a function from column names to columns.     *)
(***************************************************************************)
nrows(d) == IF DOMAIN d = {} THEN 0 ELSE Len(d[CHOOSE c \in DOMAIN d : TRUE])

\* d[name] = column
set_column(d, name, column) ==
    [c \in DOMAIN d \cup {name} |-> IF c = name THEN column ELSE d[c]]

\* d[name] += column
add_column(d, name, column) ==
    [d EXCEPT ![name] = [r \in 1..Len(@) |-> @[r] + column[r]]]

\* Series.unique(): the values in order of first appearance
RECURSIVE unique_from(_, _)
unique_from(col, i) ==
    IF i > Len(col) THEN <<>>
    ELSE IF \E j \in 1..(i - 1) : col[j] = col[i] THEN unique_from(col, i + 1)
    ELSE <<col[i]>> \o unique_from(col, i + 1)

unique(col) == unique_from(col, 1)

IndexOf(seq, v) == CHOOSE i \in 1..Len(seq) : seq[i] = v

\* experiment_data = conditions: the same object, no copy made
copy_alias(ref) == ref

\* conditions.copy(): a new object
copy(ref) == "experiment_data"

(***************************************************************************)
(* run                                                                     *)
(***************************************************************************)
DefaultSd == 1

\* An intercept only when the right-hand side writes a standalone 1.
has_intercept_when_written(fe, rhs) ==
    \/ ONE \in DOMAIN fe
    \/ \E i \in 1..Len(rhs) :
           /\ rhs[i] = "1"
           /\ (i = 1 \/ rhs[i - 1] \notin WordChar)
           /\ (i = Len(rhs) \/ rhs[i + 1] \notin WordChar)

has_intercept(fe, rhs) ==
    IF ONE \in DOMAIN fe \/ ~search_zero(rhs) THEN TRUE ELSE FALSE

\* for var in fixed_vars: if var in experiment_data.columns: ... += ...
RECURSIVE add_fixed(_, _, _, _)
add_fixed(d, dependent_var, fixed_vars, fe) ==
    IF fixed_vars = <<>> THEN d
    ELSE LET var == Head(fixed_vars)
             d1 == IF var \in DOMAIN d
                   THEN add_column(d, dependent_var,
                            [r \in 1..nrows(d) |-> get(fe, var, 0) * d[var][r]])
                   ELSE d
         IN  add_fixed(d1, dependent_var, Tail(fixed_vars), fe)

\* {group: rng_.normal(0, std_dev) for group in ...unique()}: the draws, in the
\* order of the groups
draw_each(groups, state, std_dev) == normal_n(state, std_dev, Len(groups))

\* One pass of the loop over random_effects_.split('+'). st is the state of the
\* call: experiment_data, rng_, the exception raised (if any), and the record
\* of the passes made.
process_part(st, re, dependent_var, group_var, raw, has_icpt) ==
    LET part == strip(IF raw = ONE THEN INTERCEPT ELSE raw)
    IN  IF group_var \notin DOMAIN re THEN [st EXCEPT !.error = "KeyError"]
        ELSE
        LET std_dev == get(re[group_var], part, DefaultSd)
            groups == unique(st.data[group_var])
            drawn == draw_each(groups, st.rng, std_dev)
            mapped == [r \in 1..nrows(st.data) |->
                          drawn.values[IndexOf(groups, st.data[group_var][r])]]
            zeros == [r \in 1..nrows(st.data) |-> 0]
            added == IF part = INTERCEPT
                     THEN IF has_icpt THEN mapped ELSE zeros
                     ELSE IF part \in DOMAIN st.data
                          THEN [r \in 1..nrows(st.data) |-> mapped[r] * st.data[part][r]]
                          ELSE zeros
        IN  [data |-> add_column(st.data, dependent_var, added),
             rng |-> drawn.rng,
             error |-> "",
             parts |-> Append(st.parts,
                          [group_var |-> group_var, part |-> part, std_dev |-> std_dev,
                           groups |-> groups, values |-> drawn.values, added |-> added])]

RECURSIVE process_parts(_, _, _, _, _, _)
process_parts(st, re, dependent_var, group_var, raws, has_icpt) ==
    IF raws = <<>> \/ st.error # "" THEN st
    ELSE process_parts(process_part(st, re, dependent_var, group_var, Head(raws), has_icpt),
                       re, dependent_var, group_var, Tail(raws), has_icpt)

\* The loop over random_effect_terms.
RECURSIVE process_terms(_, _, _, _, _)
process_terms(st, re, dependent_var, random_effect_terms, has_icpt) ==
    IF random_effect_terms = <<>> \/ st.error # "" THEN st
    ELSE LET term == Head(random_effect_terms)
             random_effects_ == term[1]
             group_var == strip(term[2])
             st1 == IF group_var \notin DOMAIN st.data
                    THEN [st EXCEPT !.error = "ValueError"]
                    ELSE process_parts(st, re, dependent_var, group_var,
                                       split(random_effects_, "+"), has_icpt)
         IN  process_terms(st1, re, dependent_var, Tail(random_effect_terms), has_icpt)

\* The body of run after rng_ is chosen, on experiment_data = data0.
run_body(f, fe, re, fixed_vars, data0, rng_, added_noise) ==
    LET sides == split(f, "~")
        dependent_var == strip(sides[1])
        rhs == sides[2]
        has_icpt == has_intercept(fe, rhs)
        start == IF has_icpt THEN get(fe, INTERCEPT, 0) ELSE 0
        d1 == set_column(data0, dependent_var, [r \in 1..nrows(data0) |-> start])
        d2 == add_fixed(d1, dependent_var, fixed_vars, fe)
        st == process_terms([data |-> d2, rng |-> rng_, error |-> "", parts |-> <<>>],
                            re, dependent_var, findall_terms(f), has_icpt)
        noise == normal_n(st.rng, added_noise, nrows(st.data))
        trace == [has_intercept |-> has_icpt, start |-> start, fixed |-> d2[dependent_var],
                  parts |-> st.parts, noise |-> <<>>]
    IN  IF st.error # ""
        THEN [error |-> st.error, data |-> st.data, rng |-> st.rng, steps |-> trace]
        ELSE [error |-> "", data |-> add_column(st.data, dependent_var, noise.values),
              rng |-> noise.rng, steps |-> [trace EXCEPT !.noise = noise.values]]

\* rng_ = rng, whatever random_state is
select_rng_outer(random_state, outer) == outer

\* rng_ = np.random.default_rng(random_state) if random_state is not None else rng
select_rng(random_state, outer) ==
    IF random_state # None THEN default_rng(random_state) ELSE outer

NoCall == [kind |-> "none", conditions |-> <<>>, added_noise |-> 0,
           random_state |-> None, rng_ |-> 0]
NoSteps == [has_intercept |-> FALSE, start |-> 0, fixed |-> <<>>, parts |-> <<>>,
            noise |-> <<>>]
Nothing == [kind |-> "none", data |-> <<>>, error |-> ""]

\* A call run(conditions=c, added_noise=..., random_state=...).
run(c, added_noise, random_state) ==
    LET rng_ == select_rng(random_state, rng)
        experiment_data == copy("conditions")
        r == run_body(formula, fixed_effects, random_effects, fixed_variables,
                      c, rng_, added_noise)
    IN  /\ call' = [kind |-> "call", conditions |-> c, added_noise |-> added_noise,
                    random_state |-> random_state, rng_ |-> rng_]
        /\ returned' = IF r.error = ""
                       THEN [kind |-> "table", data |-> r.data, error |-> ""]
                       ELSE [kind |-> "raise", data |-> <<>>, error |-> r.error]
        /\ conditions' = IF experiment_data = "conditions" THEN r.data ELSE c
        /\ rng' = IF random_state # None THEN rng ELSE r.rng
        /\ steps' = r.steps
        /\ UNCHANGED <<terms, formula, fixed_effects, random_effects,
                       fixed_variables, random_variables, kept>>

\* ground_truth = partial(run, added_noise=0.0)
ground_truth(c, random_state) == run(c, 0, random_state)

(***************************************************************************)
(* lmm_experiment: what run closes over.                                   *)
(***************************************************************************)
\* if not fixed_effects: fixed_effects = {}
or_empty(arg) == IF ~arg.given \/ DOMAIN arg.map = {} THEN <<>> ELSE arg.map

lmm_experiment(f, fe, re, state) ==
    LET names == _extract_variable_names(f)
    IN  [formula |-> f,
         fixed_effects |-> or_empty(fe),
         random_effects |-> or_empty(re),
         fixed_variables |-> names[2],
         random_variables |-> names[3],
         rng |-> state]

\* np.random.default_rng(random_state): seeded, or from fresh entropy
InitialRng == {default_rng(s) : s \in Seeds} \cup 0..(RngStates - 1)

NotKept == [kind |-> "none", formula |-> <<>>, fixed_effects |-> <<>>,
            random_effects |-> <<>>, call |-> NoCall, returned |-> Nothing, rng |-> 0]

\* The state after experiment = lmm_experiment(...), the caller holding a table.
Init ==
    /\ \E ts \in FormulaTerms, fe \in FixedEffectsArgs, re \in RandomEffectsArgs,
          state \in InitialRng :
           LET e == lmm_experiment(Render(ts), fe, re, state)
           IN  /\ terms = ts
               /\ formula = e.formula
               /\ fixed_effects = e.fixed_effects
               /\ random_effects = e.random_effects
               /\ fixed_variables = e.fixed_variables
               /\ random_variables = e.random_variables
               /\ rng = e.rng
    /\ conditions \in Tables
    /\ call = NoCall
    /\ returned = Nothing
    /\ steps = NoSteps
    /\ kept = NotKept

\* The caller passes the table it holds.
Run ==
    \E added_noise \in AddedNoise, random_state \in {None} \cup Seeds :
        run(conditions, added_noise, random_state)

GroundTruth ==
    \E random_state \in {None} \cup Seeds :
        ground_truth(conditions, random_state)

Next == Run \/ GroundTruth

Spec == Init /\ [][Next]_vars

(***************************************************************************)
(* A caller that keeps the result of a seeded call, builds other tables    *)
(* and other experiments, and calls again.                                 *)
(***************************************************************************)
SeedTerms == { <<One, Term("rand", G, TRUE, <<>>), Term("var", X1, FALSE, <<>>)>>,
               <<Term("rand", H, FALSE, <<X2>>)>> }
SeedFixed == { Dict((INTERCEPT :> 3) @@ (X1 :> 2)) }
SeedRandom == { Dict((G :> ((INTERCEPT :> 2) @@ (ONE :> 3) @@ (X1 :> 4)))
                     @@ (H :> ((X2 :> 2)))) }
SeedTables == {[c \in cs |-> [r \in 1..NRows |-> ColumnValue(c, r)]] :
                  cs \in { {X1, G, Y}, {X1, X2, G, H} }}

InitSeed ==
    /\ \E ts \in SeedTerms, fe \in SeedFixed, re \in SeedRandom, state \in InitialRng :
           LET e == lmm_experiment(Render(ts), fe, re, state)
           IN  /\ terms = ts
               /\ formula = e.formula
               /\ fixed_effects = e.fixed_effects
               /\ random_effects = e.random_effects
               /\ fixed_variables = e.fixed_variables
               /\ random_variables = e.random_variables
               /\ rng = e.rng
    /\ conditions \in SeedTables
    /\ call = NoCall
    /\ returned = Nothing
    /\ steps = NoSteps
    /\ kept = NotKept

\* experiment = lmm_experiment(...): another experiment, with a generator of its
\* own, on which no call has been made yet
Construct ==
    /\ \E ts \in SeedTerms, fe \in SeedFixed, re \in SeedRandom, state \in InitialRng :
           LET e == lmm_experiment(Render(ts), fe, re, state)
           IN  /\ terms' = ts
               /\ formula' = e.formula
               /\ fixed_effects' = e.fixed_effects
               /\ random_effects' = e.random_effects
               /\ fixed_variables' = e.fixed_variables
               /\ random_variables' = e.random_variables
               /\ rng' = e.rng
    /\ call' = NoCall
    /\ returned' = Nothing
    /\ steps' = NoSteps
    /\ UNCHANGED <<conditions, kept>>

\* The caller builds another conditions table.
NewConditions ==
    /\ conditions' \in SeedTables
    /\ UNCHANGED <<terms, formula, fixed_effects, random_effects, fixed_variables,
                   random_variables, rng, call, returned, steps, kept>>

\* The caller keeps the result of the seeded call it just made.
Keep ==
    /\ call.kind = "call"
    /\ call.random_state # None
    /\ kept' = [kind |-> "kept", formula |-> formula, fixed_effects |-> fixed_effects,
                random_effects |-> random_effects, call |-> call, returned |-> returned,
                rng |-> rng]
    /\ UNCHANGED <<terms, formula, fixed_effects, random_effects, fixed_variables,
                   random_variables, rng, conditions, call, returned, steps>>

NextSeed == Run \/ GroundTruth \/ Keep \/ NewConditions \/ Construct

SpecSeed == InitSeed /\ [][NextSeed]_vars

(***************************************************************************)
(* What the formula says, read off the terms it was written from.          *)
(***************************************************************************)
IsRandom(t) == t.k = "rand"
RandomOf(ts) == SelectSeq(ts, IsRandom)
HasZero(ts) == \E i \in 1..Len(ts) : ts[i].k = "zero"
BareNames(ts) == {ts[i].name : i \in {j \in 1..Len(ts) : ts[j].k = "var"}}
SlopeNames(ts) ==
    UNION {{ts[i].slopes[j] : j \in 1..Len(ts[i].slopes)} :
               i \in {j \in 1..Len(ts) : ts[j].k = "rand"}}
GroupNames(ts) == {ts[i].name : i \in {j \in 1..Len(ts) : ts[j].k = "rand"}}

\* The random-effect parts of one term, in the order written: the random
\* intercept (named Intercept in the mappings) and the slopes.
PartsOfTerm(t) ==
    (IF t.marker THEN << [group |-> t.name, marker |-> TRUE, name |-> INTERCEPT] >>
                 ELSE <<>>)
    \o [i \in 1..Len(t.slopes) |-> [group |-> t.name, marker |-> FALSE, name |-> t.slopes[i]]]

RECURSIVE PartsOfTerms(_)
PartsOfTerms(rs) ==
    IF rs = <<>> THEN <<>> ELSE PartsOfTerm(Head(rs)) \o PartsOfTerms(Tail(rs))

WrittenParts == PartsOfTerms(RandomOf(terms))

\* The intercept rule of the specification: active unless the right-hand
\* side has a 0 and the fixed-effect mapping has no Intercept entry.
InterceptActive == INTERCEPT \in DOMAIN fixed_effects \/ ~HasZero(terms)

RECURSIVE SumSeq(_, _)
SumSeq(ss, r) == IF ss = <<>> THEN 0 ELSE Head(ss).added[r] + SumSeq(Tail(ss), r)

Called == call.kind = "call"
Rows == 1..NRows
AsSet(seq) == {seq[i] : i \in 1..Len(seq)}

\* The fixed-effect part of row r: the sum over the parsed fixed-effect
\* variables that are columns of the table passed.
RECURSIVE FixedSumOver(_, _)
FixedSumOver(S, r) ==
    IF S = {} THEN 0
    ELSE LET v == CHOOSE x \in S : TRUE
         IN  get(fixed_effects, v, 0) * call.conditions[v][r] + FixedSumOver(S \ {v}, r)

FixedSum(r) == FixedSumOver(AsSet(fixed_variables) \cap DOMAIN call.conditions, r)

(***************************************************************************)
(* C1: a zero-noise call on a formula with no random-effect terms returns  *)
(* in each row the Intercept coefficient (default 0) when the intercept is *)
(* active, plus the sum of coefficient * value over the parsed             *)
(* fixed-effect variables that are columns.                                *)
(***************************************************************************)
C1_GroundTruthIsInterceptPlusFixedSum ==
    (Called /\ call.added_noise = 0 /\ RandomOf(terms) = <<>>) =>
        /\ returned.kind = "table"
        /\ \A r \in Rows :
               returned.data[Y][r] =
                   (IF InterceptActive THEN get(fixed_effects, INTERCEPT, 0) ELSE 0)
                   + FixedSum(r)

\* The same with the flag the call itself computed: the sum is as claimed
\* once the intercept is taken as the call takes it.
FixedSumWithCallFlag ==
    (Called /\ call.added_noise = 0 /\ RandomOf(terms) = <<>>) =>
        /\ returned.kind = "table"
        /\ \A r \in Rows :
               returned.data[Y][r] =
                   (IF steps.has_intercept THEN get(fixed_effects, INTERCEPT, 0) ELSE 0)
                   + FixedSum(r)

(***************************************************************************)
(* C2: every row's accumulator starts at the Intercept coefficient         *)
(* (default 0) unless the right-hand side has a standalone 0 and the       *)
(* fixed-effect mapping has no Intercept entry; only then does it start    *)
(* at 0.                                                                   *)
(***************************************************************************)
C2_StartsAtInterceptUnlessZeroAndNoEntry ==
    Called =>
        steps.start = (IF InterceptActive THEN get(fixed_effects, INTERCEPT, 0) ELSE 0)

(***************************************************************************)
(* C3: two calls given the same explicit seed (same experiment             *)
(* parameters, table and noise level) return identical output, whatever    *)
(* calls were made before or between them.                                 *)
(***************************************************************************)
SameCallAsKept ==
    /\ kept.kind = "kept"
    /\ Called
    /\ call.random_state # None
    /\ kept.formula = formula
    /\ kept.fixed_effects = fixed_effects
    /\ kept.random_effects = random_effects
    /\ kept.call.conditions = call.conditions
    /\ kept.call.added_noise = call.added_noise
    /\ kept.call.random_state = call.random_state

C3_SameSeedSameOutput == SameCallAsKept => returned = kept.returned

\* The second call is made with the experiment's own generator in another
\* state than at the first, and random effects and noise were drawn.
C3_Witness ==
    /\ SameCallAsKept
    /\ kept.rng # rng
    /\ returned.kind = "table"
    /\ steps.parts # <<>>
    /\ call.added_noise # 0

(***************************************************************************)
(* C4: the standard deviation of each random-effect term's draws is the    *)
(* value under group then term in the random-effects mapping, and 0.5      *)
(* when the term or the group is missing from it; the call does not fail   *)
(* in either case.                                                         *)
(***************************************************************************)
ResolvedSd(p) == get(get(random_effects, p.group, <<>>), p.name, DefaultSd)

C4_SdFromMappingOrDefault ==
    (Called /\ GroupNames(terms) \subseteq DOMAIN call.conditions) =>
        /\ returned.kind = "table"
        /\ Len(steps.parts) = Len(WrittenParts)
        /\ \A k \in 1..Len(steps.parts) :
               steps.parts[k].std_dev = ResolvedSd(WrittenParts[k])

(***************************************************************************)
(* C5: a call whose formula has a random-effect term with a grouping       *)
(* variable that is not a column fails with the missing-group error and    *)
(* returns no table, wherever that term stands among the random-effect     *)
(* terms.                                                                  *)
(***************************************************************************)
C5_MissingGroupRaises ==
    (Called /\ ~(GroupNames(terms) \subseteq DOMAIN call.conditions)) =>
        /\ returned.kind = "raise"
        /\ returned.error = "ValueError"

(***************************************************************************)
(* C6: a formula with the intercept written out (y ~ 1 + ...) and the      *)
(* same formula with it left implicit (y ~ ...), with the same             *)
(* coefficients, give identical zero-noise output on the same table.       *)
(***************************************************************************)
ExplicitIntercept == Len(terms) >= 2 /\ terms[1] = One

ImplicitTwin ==
    LET e == lmm_experiment(Render(Tail(terms)),
                            Dict(fixed_effects), Dict(random_effects), call.rng_)
        r == run_body(e.formula, e.fixed_effects, e.random_effects, e.fixed_variables,
                      call.conditions, e.rng, 0)
    IN  IF r.error = ""
        THEN [kind |-> "table", data |-> r.data, error |-> ""]
        ELSE [kind |-> "raise", data |-> <<>>, error |-> r.error]

C6_ExplicitAndImplicitInterceptAgree ==
    (Called /\ call.added_noise = 0 /\ ExplicitIntercept) => returned = ImplicitTwin

C6_Witness ==
    /\ Called /\ call.added_noise = 0
    /\ terms = <<One, Term("var", X1, FALSE, <<>>)>>
    /\ get(fixed_effects, INTERCEPT, 0) # 0
    /\ returned.kind = "table"
    /\ returned = ImplicitTwin

(***************************************************************************)
(* C7: a call leaves the table it was given as it was; the table it        *)
(* returns has the input's columns unchanged apart from the                *)
(* dependent-variable column, which is added or overwritten with the       *)
(* computed values.                                                        *)
(***************************************************************************)
C7_InputUntouchedOutputAgrees ==
    Called =>
        /\ conditions = call.conditions
        /\ returned.kind = "table" =>
               /\ DOMAIN returned.data = DOMAIN call.conditions \cup {Y}
               /\ \A c \in DOMAIN call.conditions \ {Y} :
                      returned.data[c] = call.conditions[c]
               /\ \A r \in Rows :
                      returned.data[Y][r] =
                          steps.fixed[r] + SumSeq(steps.parts, r) + steps.noise[r]

\* The input already had a column named as the dependent variable, with
\* other values than the call computed.
C7_Witness ==
    /\ Called
    /\ returned.kind = "table"
    /\ Y \in DOMAIN call.conditions
    /\ X1 \in DOMAIN call.conditions
    /\ returned.data[Y] # call.conditions[Y]
    /\ conditions = call.conditions

(***************************************************************************)
(* C8: a random slope on a variable that is not a column does not make     *)
(* the call fail, and that term adds exactly 0 to every row.               *)
(***************************************************************************)
AbsentSlope(p) == ~p.marker /\ p.name \notin DOMAIN call.conditions

C8_AbsentSlopeAddsZero ==
    (/\ Called
     /\ GroupNames(terms) \subseteq DOMAIN call.conditions
     /\ \E k \in 1..Len(WrittenParts) : AbsentSlope(WrittenParts[k])) =>
        /\ returned.kind = "table"
        /\ Len(steps.parts) = Len(WrittenParts)
        /\ \A k \in 1..Len(steps.parts) :
               AbsentSlope(WrittenParts[k]) =>
                   \A r \in Rows : steps.parts[k].added[r] = 0

(***************************************************************************)
(* C9: the parser returns as fixed-effect names the sorted, de-duplicated  *)
(* bare variable names together with the slope names of the random-effect  *)
(* terms, never the random-intercept marker 1; and as random groups the    *)
(* sorted, de-duplicated grouping names.                                   *)
(***************************************************************************)
SortedListOf(seq, S) ==
    /\ AsSet(seq) = S
    /\ \A i, j \in 1..Len(seq) : i < j => StrLess(seq[i], seq[j])

C9_ParserReturnsNamesWithoutMarker ==
    /\ SortedListOf(fixed_variables, BareNames(terms) \cup SlopeNames(terms))
    /\ ONE \notin AsSet(fixed_variables)
    /\ SortedListOf(random_variables, GroupNames(terms))

(***************************************************************************)
(* C10: for a random-effect term whose term list has the marker 1, alone   *)
(* or with slopes: when the fixed intercept is active each row gets the    *)
(* random-intercept draw of its group, one draw per distinct group value;  *)
(* when the fixed intercept is absent the term adds nothing.               *)
(* Stated for the calls whose own intercept flag agrees with the           *)
(* specification's rule.                                                   *)
(***************************************************************************)
DrawOfRow(p, r) ==
    p.values[IndexOf(p.groups, call.conditions[p.group_var][r])]

C10_RandomInterceptAddedWhenActive ==
    (Called /\ steps.has_intercept = InterceptActive) =>
        \A k \in 1..Len(steps.parts) :
            WrittenParts[k].marker =>
                /\ Len(steps.parts[k].values) = Cardinality(AsSet(call.conditions[steps.parts[k].group_var]))
                /\ \A r \in Rows :
                       steps.parts[k].added[r] =
                           IF InterceptActive THEN DrawOfRow(steps.parts[k], r) ELSE 0

(***************************************************************************)
(* C11: a call with noise standard deviation exactly 0 takes no draw from  *)
(* the generator for the noise term; its only draws are the per-group      *)
(* random-effect draws.  For a call without a per-call seed the generator  *)
(* used is the experiment's own, so after the call that generator is the   *)
(* one the call started with, advanced once per group draw; with no        *)
(* random-effect terms in the formula it is left as it was, and a later    *)
(* unseeded call sees the same generator.                                  *)
(***************************************************************************)
RECURSIVE AfterDraws(_, _)
AfterDraws(state, n) == IF n = 0 THEN state ELSE AfterDraws(advance(state), n - 1)

RECURSIVE GroupDraws(_)
GroupDraws(ps) == IF ps = <<>> THEN 0 ELSE Len(Head(ps).values) + GroupDraws(Tail(ps))

C11_ZeroNoiseTakesNoDraw ==
    (/\ Called
     /\ returned.kind = "table"
     /\ call.added_noise = 0
     /\ call.random_state = None) =>
        rng = AfterDraws(call.rng_, GroupDraws(steps.parts))

====
